---- MODULE Spec2Model ----
(***************************************************************************)
(* Model of the instrument Connection engine of                            *)
(* src/src/instrument/connection/connection.ts: the connection state       *)
(* machine, the byte-stream framing of onData, the identification          *)
(* handshake, the long-operation routing and the acquire/release gate.     *)
(*                                                                         *)
(* The Connection object is the record-valued variable conn.  Every        *)
(* method of the class is an operator from a "world" record (the fields of *)
(* conn, of the JavaScript timer runtime / Transport rt, and of the        *)
(* outputs eff of the handler that is running) to the world after the      *)
(* method returned, so that a method calling another is one operator       *)
(* applied inside another, as in the source.                               *)
(***************************************************************************)
EXTENDS Naturals, Sequences, FiniteSets, TLC

VARIABLES
    conn,        \* the Connection object
    rt,          \* pending timers and the Transport's link
    eff,         \* what the handler that ran last did to its collaborators
    instrument,  \* the InstrumentObject the Connection was built for
    probe,       \* the instrument's side of an upload exchange (SpecUpload)
    mirror,      \* the status channel and the IpcConnection watching it
    ipc,         \* the messages of a renderer to the IPC server
    connections  \* the registry of each context

vars == <<conn, rt, eff, instrument, probe, mirror, ipc, connections>>

-----------------------------------------------------------------------------
(* Bounds of the model *)

\* longest chunk the Transport delivers in one data event
MaxChunk == 2
\* longest frame buffer (this.data) the environment lets build up
MaxData == 2
\* most bytes the environment feeds to one Upload (header, payload, surplus)
MaxFed == 5
\* most identification timers of earlier sessions still pending
MaxStale == 1
\* most blocks a Download writes
MaxBlocks == 1
\* longest payload of the upload blocks of SpecUpload
MaxPayload == 2
\* widest length field of the upload blocks of SpecUpload
MaxWidth == 2
\* most status messages in flight to the IpcConnection (SpecProxy)
MaxQueue == 3

-----------------------------------------------------------------------------
(* Values *)

LF == "\n"
Marker == "#"
DigitOf == <<"0", "1", "2", "3", "4", "5", "6", "7", "8", "9">>
Digits == {DigitOf[i] : i \in 1..10}
\* the bytes of the streams the model feeds
Byte == {Marker, "1", LF}

\* a string that is undefined in the source (strings are sequences of Byte)
undefinedStr == <<"undefined">>
\* an error message that is undefined
undefinedMsg == "undefined"

ConnectionState == {"IDLE", "CONNECTING", "CONNECTED", "DISCONNECTING"}
ConnectionErrorCode == {"NONE", "TRANSPORT"}

RECURSIVE StringsOfLen(_)
StringsOfLen(n) ==
    IF n = 0 THEN {<<>>}
    ELSE {Append(s, b) : s \in StringsOfLen(n - 1), b \in Byte}

\* the non-empty chunks a data event can carry
Chunks == UNION {StringsOfLen(n) : n \in 1..MaxChunk}

DigitVal(b) == (CHOOSE i \in 1..10 : DigitOf[i] = b) - 1

\* parseScpiValue(line), reduced to the type of its result: a line of digits
\* is a number, any other line a string
parseScpiValue(line) ==
    LET body == IF Len(line) > 0 /\ line[Len(line)] = LF
                THEN SubSeq(line, 1, Len(line) - 1) ELSE line
    IN  IF body # <<>> /\ \A i \in 1..Len(body) : body[i] \in Digits
        THEN "number" ELSE "string"

\* String.indexOf("\n") + 1, 0 when there is none
RECURSIVE IndexAfterLF(_, _)
IndexAfterLF(s, i) ==
    IF i > Len(s) THEN 0
    ELSE IF s[i] = LF THEN i
    ELSE IndexAfterLF(s, i + 1)

-----------------------------------------------------------------------------
(* Long operations *)

NoLongOperation ==
    [kind |-> "none", phase |-> "none", w |-> 0, len |-> 0,
     payload |-> <<>>, dataSurplus |-> undefinedStr, aborted |-> FALSE,
     remaining |-> 0, fed |-> 0]

\* FileUpload consuming one byte of the length-prefixed block
UploadByte(u, b) ==
    LET v == [u EXCEPT !.fed = @ + 1] IN
    CASE u.phase = "marker" ->
            IF b = Marker THEN [v EXCEPT !.phase = "width"]
            ELSE [v EXCEPT !.phase = "error"]
      [] u.phase = "width" ->
            IF b \in Digits /\ DigitVal(b) > 0
            THEN [v EXCEPT !.phase = "length", !.w = DigitVal(b)]
            ELSE [v EXCEPT !.phase = "error"]
      [] u.phase = "length" ->
            IF b \in Digits
            THEN LET n == u.len * 10 + DigitVal(b) IN
                 IF u.w > 1 THEN [v EXCEPT !.w = u.w - 1, !.len = n]
                 ELSE IF n = 0 THEN [v EXCEPT !.w = 0, !.len = n, !.phase = "done"]
                 ELSE [v EXCEPT !.w = 0, !.len = n, !.phase = "payload"]
            ELSE [v EXCEPT !.phase = "error"]
      [] u.phase = "payload" ->
            IF Len(u.payload) + 1 = u.len
            THEN [v EXCEPT !.payload = Append(@, b), !.phase = "done"]
            ELSE [v EXCEPT !.payload = Append(@, b)]
      [] u.phase = "done" ->
            [v EXCEPT !.dataSurplus =
                IF @ = undefinedStr THEN <<b>> ELSE Append(@, b)]
      [] OTHER -> v

RECURSIVE UploadOnData(_, _)
UploadOnData(u, data) ==
    IF data = <<>> THEN u
    ELSE UploadOnData(UploadByte(u, Head(data)), Tail(data))

\* new FileUpload(connection, data)
FileUpload(data) ==
    UploadOnData([NoLongOperation EXCEPT !.kind = "upload", !.phase = "marker"], data)

\* new FileDownload(connection, instructions)
FileDownload(blocks) ==
    [NoLongOperation EXCEPT !.kind = "download", !.phase = "payload",
                            !.remaining = blocks]

\* a LongOperation that is neither a FileUpload nor a FileDownload
OtherOperation ==
    [NoLongOperation EXCEPT !.kind = "other", !.phase = "payload"]

\* longOperation instanceof FileUpload || longOperation instanceof FileDownload
IsFileTransfer(op) == op.kind \in {"upload", "download"}

\* LongOperation.onData
LongOperationOnData(op, data) ==
    IF op.kind = "upload" THEN UploadOnData(op, data) ELSE op

\* LongOperation.isDone
IsDone(op) ==
    \/ op.aborted
    \/ op.phase \in {"done", "error"}
    \/ op.kind = "download" /\ op.remaining = 0

\* LongOperation.abort
LongOperationAbort(op) == [op EXCEPT !.aborted = TRUE]

Active(op) == op.kind # "none"

-----------------------------------------------------------------------------
(* The world record *)

ConnFields ==
    {"state", "errorCode", "error", "communicationInterface", "wasConnected",
     "data", "idnExpected", "idnExpectedTimeout", "dataTimeoutId",
     "longOperation", "connectionParameters", "housekeepingIntervalId",
     "callbackWindowId", "traceEnabled"}

\* the timers the runtime holds, the Transport's link, and what the
\* identification timeouts did in the current session
RtFields ==
    {"dataTimer", "idnTimer", "staleIdnTimers", "interval", "link", "closing",
     "idnFired"}

\* what the handler that ran last did to its collaborators
EffFields ==
    {"op", "fault", "writes", "tconnect", "tdisconnect", "log", "lines",
     "values", "setIdn", "done", "aborts", "ret", "args"}

NoEff ==
    [op |-> "init", fault |-> <<>>, writes |-> <<>>, tconnect |-> 0,
     tdisconnect |-> 0, log |-> <<>>, lines |-> <<>>, values |-> <<>>,
     setIdn |-> <<>>, done |-> <<>>, aborts |-> <<>>, ret |-> "",
     args |-> <<>>]

\* the world when handler op starts
Begin(op) == conn @@ rt @@ [NoEff EXCEPT !.op = op]

\* the Connection and the observation when the handler has returned
Assign(s) ==
    /\ conn' = [f \in ConnFields |-> s[f]]
    /\ rt' = [f \in RtFields |-> s[f]]
    /\ eff' = [f \in EffFields |-> s[f]]

\* the world when a handler called in the owning context has returned
Commit(s) ==
    /\ Assign(s)
    /\ UNCHANGED <<instrument, ipc, connections>>

\* the ConnectionStatus sendConnectionStatusMessage builds
StatusOf(c) == [state |-> c.state, errorCode |-> c.errorCode, error |-> c.error]

\* sendMessage(notifySource, connectionStatus): one message to the watcher,
\* none when nobody watches
sendConnectionStatusMessage(m, status) ==
    IF m.subscribed THEN [m EXCEPT !.queue = Append(@, status)] ELSE m

\* The order in which a handler assigns the observables: setError() then
\* disconnect() in the identification timeout and in onDataLineReceived,
\* state first in every other handler.
SetterOrder(op) ==
    IF op \in {"idnTimeout", "data"}
    THEN <<"errorCode", "error", "state">>
    ELSE <<"state", "errorCode", "error">>

\* The autorun of the constructor: each setter is an action of its own, and
\* after each one that changed its observable the status is sent again.
RECURSIVE autorun(_, _, _, _)
autorun(m, cur, new, order) ==
    IF order = <<>> THEN m
    ELSE LET f == Head(order) IN
         IF cur[f] = new[f]
         THEN autorun(m, cur, new, Tail(order))
         ELSE LET nxt == [cur EXCEPT ![f] = new[f]] IN
              autorun(sendConnectionStatusMessage(m, nxt), nxt, new, Tail(order))

\* the status channel after a handler: the autorun runs until destroy()
\* has called its disposer
Published(s) ==
    IF connections.main = "Connection"
    THEN autorun(mirror, StatusOf(conn), StatusOf(s), SetterOrder(s.op))
    ELSE mirror

\* a handler running in the engine's own context
Handle(s) ==
    /\ Commit(s)
    /\ UNCHANGED probe
    /\ mirror' = Published(s)

ConsoleError(s, msg) == [s EXCEPT !.fault = Append(@, msg)]

-----------------------------------------------------------------------------
(* Methods of Connection *)

\* dismissError() that resets the error code as well
dismissErrorAndCode(s) == [s EXCEPT !.error = undefinedMsg, !.errorCode = "NONE"]

dismissError(s) == [s EXCEPT !.error = undefinedMsg]

setError(s, errorCode, error) ==
    [s EXCEPT !.errorCode = errorCode, !.error = error]

\* connect() that always builds the EthernetInterface
connectEthernetOnly(s) ==
    IF s.state # "IDLE"
    THEN ConsoleError(s, "invalid state (connect)")
    ELSE [s EXCEPT !.state = "CONNECTING",
                   !.errorCode = "NONE",
                   !.error = undefinedMsg,
                   !.connectionParameters = instrument.lastConnection,
                   !.communicationInterface = "ethernet",
                   !.tconnect = @ + 1,
                   !.link = "opening"]

\* connect() without its state guard
connectUnguarded(s) ==
    [s EXCEPT !.state = "CONNECTING",
              !.errorCode = "NONE",
              !.error = undefinedMsg,
              !.connectionParameters = instrument.lastConnection,
              !.communicationInterface =
                  IF instrument.lastConnection = "ethernet"
                  THEN "ethernet" ELSE "serial",
              !.tconnect = @ + 1,
              !.link = "opening"]

connect(s) ==
    IF s.state # "IDLE"
    THEN ConsoleError(s, "invalid state (connect)")
    ELSE [s EXCEPT !.state = "CONNECTING",
                   !.errorCode = "NONE",
                   !.error = undefinedMsg,
                   !.connectionParameters = instrument.lastConnection,
                   !.communicationInterface =
                       IF instrument.lastConnection = "ethernet"
                       THEN "ethernet" ELSE "serial",
                   !.tconnect = @ + 1,
                   !.link = "opening"]

logRequest(s, data) ==
    IF s.traceEnabled
    THEN [s EXCEPT !.log = Append(@, [type |-> "instrument/request", message |-> data])]
    ELSE s

logAnswer(s, data) ==
    IF s.traceEnabled
    THEN [s EXCEPT !.log = Append(@, [type |-> "instrument/answer", message |-> data])]
    ELSE s

\* sendValue() that sends to window 1 whoever acquired the connection
sendValueToFirstWindow(s, value) ==
    [s EXCEPT !.values = Append(@, [to |-> 1, value |-> value])]

sendValue(s, value) ==
    IF s.callbackWindowId # 0
    THEN [s EXCEPT !.values = Append(@, [to |-> s.callbackWindowId, value |-> value])]
    ELSE s

longOperationDone(s) ==
    LET s1 == sendValue(s, [type |-> "logEntry", of |-> s.longOperation.payload]) IN
    [s1 EXCEPT !.done = Append(@, s.longOperation),
               !.longOperation = NoLongOperation]

\* disconnect() without its state guard
disconnectUnguarded(s) ==
    [s EXCEPT !.state = "DISCONNECTING", !.tdisconnect = @ + 1,
              !.closing = TRUE]

disconnect(s) ==
    IF s.state = "IDLE" \/ s.communicationInterface = "undefined"
    THEN ConsoleError(s, "invalid state (disconnect)")
    ELSE [s EXCEPT !.state = "DISCONNECTING", !.tdisconnect = @ + 1,
                   !.closing = TRUE]

\* onDataLineReceived() that leaves the identification timer running
onDataLineReceivedKeepsTimer(s, data) ==
    LET type == parseScpiValue(data)
        s1 == logAnswer([s EXCEPT !.lines = Append(@, data)], data)
        s2 == sendValue(s1, [type |-> type, of |-> data])
    IN  IF s2.idnExpected
        THEN LET s3 == [s2 EXCEPT !.idnExpected = FALSE]
             IN  IF type # "string"
                 THEN disconnect(setError(s3, "NONE", "Invalid IDN value."))
                 ELSE [s3 EXCEPT !.setIdn = Append(@, data)]
        ELSE s2

onDataLineReceived(s, data) ==
    LET type == parseScpiValue(data)
        s1 == logAnswer([s EXCEPT !.lines = Append(@, data)], data)
        s2 == sendValue(s1, [type |-> type, of |-> data])
    IN  IF s2.idnExpected
        THEN LET s3 == [s2 EXCEPT
                          !.idnTimer = IF s2.idnExpectedTimeout THEN FALSE ELSE @,
                          !.idnExpectedTimeout = FALSE,
                          !.idnExpected = FALSE]
             IN  IF type # "string"
                 THEN disconnect(setError(s3, "NONE", "Invalid IDN value."))
                 ELSE [s3 EXCEPT !.setIdn = Append(@, data)]
        ELSE s2

\* flushData() that leaves the long operation alone
flushDataKeepsLongOperation(s) ==
    LET s2 == IF s.dataTimeoutId
              THEN [s EXCEPT !.dataTimer = FALSE, !.dataTimeoutId = FALSE]
              ELSE s
    IN  IF s2.data # undefinedStr /\ s2.data # <<>>
        THEN [logAnswer(s2, s2.data) EXCEPT !.data = undefinedStr]
        ELSE s2

flushData(s) ==
    LET s1 == IF Active(s.longOperation)
              THEN [s EXCEPT !.aborts = Append(@, s.longOperation.kind),
                             !.longOperation = NoLongOperation]
              ELSE s
        s2 == IF s1.dataTimeoutId
              THEN [s1 EXCEPT !.dataTimer = FALSE, !.dataTimeoutId = FALSE]
              ELSE s1
    IN  IF s2.data # undefinedStr /\ s2.data # <<>>
        THEN [logAnswer(s2, s2.data) EXCEPT !.data = undefinedStr]
        ELSE s2

housekeeping(s) ==
    IF Active(s.longOperation) /\ IsDone(s.longOperation)
    THEN LET dataSurplus == s.longOperation.dataSurplus IN
         [longOperationDone(s) EXCEPT !.data = dataSurplus]
    ELSE s

\* the part of onData after the long-operation routing (lines 339-362)
onDataFrame(s, data) ==
    LET all == IF s.data = undefinedStr THEN data ELSE s.data \o data
        index == IndexAfterLF(all, 1)
        s1 == IF index # 0
              THEN onDataLineReceived(
                      [s EXCEPT !.data = IF index < Len(all)
                                         THEN SubSeq(all, index + 1, Len(all))
                                         ELSE undefinedStr],
                      SubSeq(all, 1, index))
              ELSE [s EXCEPT !.data = all]
    IN  IF s1.data # undefinedStr
        THEN [s1 EXCEPT !.dataTimeoutId = TRUE, !.dataTimer = TRUE]
        ELSE s1

\* onData() that forgets the surplus of a completed long operation
onDataDropsSurplus(s, data) ==
    LET s0 == IF s.dataTimeoutId THEN [s EXCEPT !.dataTimer = FALSE] ELSE s
        s1 == IF Active(s0.longOperation)
              THEN [s0 EXCEPT !.longOperation = LongOperationOnData(@, data)]
              ELSE IF s0.data = undefinedStr /\ Head(data) = Marker
              THEN [s0 EXCEPT !.longOperation = FileUpload(data)]
              ELSE s0
    IN  IF Active(s1.longOperation)
        THEN IF ~IsDone(s1.longOperation)
             THEN s1
             ELSE longOperationDone(s1)
        ELSE onDataFrame(s1, data)

onData(s, data) ==
    LET s0 == IF s.dataTimeoutId THEN [s EXCEPT !.dataTimer = FALSE] ELSE s
        s1 == IF Active(s0.longOperation)
              THEN [s0 EXCEPT !.longOperation = LongOperationOnData(@, data)]
              ELSE IF s0.data = undefinedStr /\ Head(data) = Marker
              THEN [s0 EXCEPT !.longOperation = FileUpload(data)]
              ELSE s0
    IN  IF Active(s1.longOperation)
        THEN IF ~IsDone(s1.longOperation)
             THEN s1
             ELSE LET dataSurplus == s1.longOperation.dataSurplus
                      s2 == longOperationDone(s1)
                  IN  IF dataSurplus = undefinedStr
                      THEN s2
                      ELSE onDataFrame(s2, dataSurplus)
        ELSE onDataFrame(s1, data)

\* send() that leaves the error of an earlier failure in place
sendKeepsError(s, command, optLog, optLongOperation) ==
    LET s1 == IF optLog THEN logRequest(s, command) ELSE s IN
    IF s1.state # "CONNECTED" \/ s1.communicationInterface = "undefined"
    THEN logAnswer(s1, <<"**ERROR: not connected\n">>)
    ELSE IF ~optLongOperation /\ Active(s1.longOperation)
    THEN IF IsFileTransfer(s1.longOperation)
         THEN logAnswer(s1, <<"**ERROR: file transfer in progress\n">>)
         ELSE logAnswer(s1, <<"**ERROR: another operation in progress\n">>)
    ELSE [s1 EXCEPT !.writes = Append(@, command \o <<LF>>)]

\* send() that does not look at the active long operation
sendPipelined(s, command, optLog, optLongOperation) ==
    LET s1 == IF optLog THEN logRequest(s, command) ELSE s IN
    IF s1.state # "CONNECTED" \/ s1.communicationInterface = "undefined"
    THEN logAnswer(s1, <<"**ERROR: not connected\n">>)
    ELSE [s1 EXCEPT !.errorCode = "NONE",
                    !.error = undefinedMsg,
                    !.writes = Append(@, command \o <<LF>>)]

\* send() that looks only for the Transport, not at the state
sendInAnyState(s, command, optLog, optLongOperation) ==
    LET s1 == IF optLog THEN logRequest(s, command) ELSE s IN
    IF s1.communicationInterface = "undefined"
    THEN logAnswer(s1, <<"**ERROR: not connected\n">>)
    ELSE IF ~optLongOperation /\ Active(s1.longOperation)
    THEN IF IsFileTransfer(s1.longOperation)
         THEN logAnswer(s1, <<"**ERROR: file transfer in progress\n">>)
         ELSE logAnswer(s1, <<"**ERROR: another operation in progress\n">>)
    ELSE [s1 EXCEPT !.errorCode = "NONE",
                    !.error = undefinedMsg,
                    !.writes = Append(@, command \o <<LF>>)]

\* options: log (no options, or options.log) and longOperation
send(s, command, optLog, optLongOperation) ==
    LET s1 == IF optLog THEN logRequest(s, command) ELSE s IN
    IF s1.state # "CONNECTED" \/ s1.communicationInterface = "undefined"
    THEN logAnswer(s1, <<"**ERROR: not connected\n">>)
    ELSE IF ~optLongOperation /\ Active(s1.longOperation)
    THEN IF IsFileTransfer(s1.longOperation)
         THEN logAnswer(s1, <<"**ERROR: file transfer in progress\n">>)
         ELSE logAnswer(s1, <<"**ERROR: another operation in progress\n">>)
    ELSE [s1 EXCEPT !.errorCode = "NONE",
                    !.error = undefinedMsg,
                    !.writes = Append(@, command \o <<LF>>)]

sendIdn(s) ==
    IF s.state # "CONNECTED"
    THEN ConsoleError(s, "invalid state (this.state !== ConnectionState.CONNECTED)")
    ELSE IF s.communicationInterface = "undefined"
    THEN ConsoleError(s, "invalid state (!this.connectionInterfaceImplementation)")
    ELSE LET s1 == flushData(send(s, <<"*IDN?">>, TRUE, FALSE)) IN
         [s1 EXCEPT !.idnExpected = TRUE,
                    !.staleIdnTimers = IF s1.idnTimer THEN @ + 1 ELSE @,
                    !.idnExpectedTimeout = TRUE,
                    !.idnTimer = TRUE]

connected(s) ==
    LET s1 == [s EXCEPT !.state = "CONNECTED",
                        !.log = Append(@, [type |-> "instrument/connected",
                                           message |-> <<s.connectionParameters>>]),
                        !.wasConnected = TRUE,
                        !.idnFired = FALSE]
    IN  [sendIdn(s1) EXCEPT !.housekeepingIntervalId = TRUE, !.interval = TRUE]

\* disconnected() that opens the Transport again when the session ended
\* with an error
disconnectedReconnects(s) ==
    LET s1 == [s EXCEPT !.communicationInterface = "undefined", !.state = "IDLE"]
        s2 == IF s1.wasConnected
              THEN LET f == flushData(s1) IN
                   [f EXCEPT !.log = Append(@, [type |-> "instrument/disconnected",
                                                message |-> <<f.error>>]),
                             !.wasConnected = FALSE]
              ELSE [s1 EXCEPT !.log = Append(@, [type |-> "instrument/connect-failed",
                                                 message |-> <<s1.error>>])]
        s3 == IF s2.housekeepingIntervalId
              THEN [s2 EXCEPT !.interval = FALSE, !.housekeepingIntervalId = FALSE]
              ELSE s2
    IN  IF s.error # undefinedMsg THEN connect(s3) ELSE s3

\* disconnected() that keeps the reference to the Transport
disconnectedKeepsTransport(s) ==
    LET s1 == [s EXCEPT !.state = "IDLE"]
        s2 == IF s1.wasConnected
              THEN LET f == flushData(s1) IN
                   [f EXCEPT !.log = Append(@, [type |-> "instrument/disconnected",
                                                message |-> <<f.error>>]),
                             !.wasConnected = FALSE]
              ELSE [s1 EXCEPT !.log = Append(@, [type |-> "instrument/connect-failed",
                                                 message |-> <<s1.error>>])]
    IN  IF s2.housekeepingIntervalId
        THEN [s2 EXCEPT !.interval = FALSE, !.housekeepingIntervalId = FALSE]
        ELSE s2

\* disconnected() that leaves the housekeeping interval running
disconnectedKeepsHousekeeping(s) ==
    LET s1 == [s EXCEPT !.communicationInterface = "undefined", !.state = "IDLE"]
    IN  IF s1.wasConnected
        THEN LET f == flushData(s1) IN
             [f EXCEPT !.log = Append(@, [type |-> "instrument/disconnected",
                                          message |-> <<f.error>>]),
                       !.wasConnected = FALSE]
        ELSE [s1 EXCEPT !.log = Append(@, [type |-> "instrument/connect-failed",
                                           message |-> <<s1.error>>])]

\* disconnected() that does not flush
disconnectedKeepsBuffer(s) ==
    LET s1 == [s EXCEPT !.communicationInterface = "undefined", !.state = "IDLE"]
        s2 == IF s1.wasConnected
              THEN [s1 EXCEPT !.log = Append(@, [type |-> "instrument/disconnected",
                                                 message |-> <<s1.error>>]),
                              !.wasConnected = FALSE]
              ELSE [s1 EXCEPT !.log = Append(@, [type |-> "instrument/connect-failed",
                                                 message |-> <<s1.error>>])]
    IN  IF s2.housekeepingIntervalId
        THEN [s2 EXCEPT !.interval = FALSE, !.housekeepingIntervalId = FALSE]
        ELSE s2

disconnected(s) ==
    LET s1 == [s EXCEPT !.communicationInterface = "undefined", !.state = "IDLE"]
        s2 == IF s1.wasConnected
              THEN LET f == flushData(s1) IN
                   [f EXCEPT !.log = Append(@, [type |-> "instrument/disconnected",
                                                message |-> <<f.error>>]),
                             !.wasConnected = FALSE]
              ELSE [s1 EXCEPT !.log = Append(@, [type |-> "instrument/connect-failed",
                                                 message |-> <<s1.error>>])]
    IN  IF s2.housekeepingIntervalId
        THEN [s2 EXCEPT !.interval = FALSE, !.housekeepingIntervalId = FALSE]
        ELSE s2

\* startLongOperation() that does not look for an active long operation
startLongOperationReplaces(s, op) ==
    IF s.state # "CONNECTED" \/ s.communicationInterface = "undefined"
    THEN <<s, "not connected">>
    ELSE <<[s EXCEPT !.longOperation = op], "">>

\* throws: the result is <<world, error thrown or "">>
startLongOperation(s, op) ==
    IF s.state # "CONNECTED" \/ s.communicationInterface = "undefined"
    THEN <<s, "not connected">>
    ELSE IF Active(s.longOperation)
    THEN IF IsFileTransfer(s.longOperation)
         THEN <<s, "file transfer in progress">>
         ELSE <<s, "another operation in progress">>
    ELSE <<[s EXCEPT !.longOperation = op], "">>

download(s, blocks) ==
    LET r == startLongOperation(s, FileDownload(blocks)) IN
    IF r[2] # ""
    THEN logAnswer(r[1], <<"**ERROR: " \o r[2] \o "\n">>)
    ELSE r[1]

\* destroy(): disconnect(), then the autorun's disposer and unregisterSource
\* (the end of publication is the registry value "destroyed Connection")
destroy(s) == disconnect(s)

\* abortLongOperation() that reports an error when nothing is in progress
abortLongOperationSetsError(s) ==
    IF Active(s.longOperation)
    THEN [s EXCEPT !.aborts = Append(@, s.longOperation.kind),
                   !.longOperation = LongOperationAbort(@)]
    ELSE setError(s, "NONE", "no operation in progress")

abortLongOperation(s) ==
    IF Active(s.longOperation)
    THEN [s EXCEPT !.aborts = Append(@, s.longOperation.kind),
                   !.longOperation = LongOperationAbort(@)]
    ELSE s

\* acquire() without its state guard
acquireInAnyState(s, callbackWindowId, traceEnabled) ==
    [s EXCEPT !.args = <<callbackWindowId, traceEnabled>>,
              !.callbackWindowId = callbackWindowId,
              !.traceEnabled = traceEnabled,
              !.ret = "null"]

\* acquire() that refuses a connection that already has an owner
acquireOnlyWhenFree(s, callbackWindowId, traceEnabled) ==
    LET s1 == [s EXCEPT !.args = <<callbackWindowId, traceEnabled>>] IN
    IF s1.state # "CONNECTED" \/ s1.callbackWindowId # 0
    THEN [s1 EXCEPT !.ret = "not connected"]
    ELSE [s1 EXCEPT !.callbackWindowId = callbackWindowId,
                    !.traceEnabled = traceEnabled,
                    !.ret = "null"]

acquire(s, callbackWindowId, traceEnabled) ==
    LET s1 == [s EXCEPT !.args = <<callbackWindowId, traceEnabled>>] IN
    IF s1.state # "CONNECTED"
    THEN [s1 EXCEPT !.ret = "not connected"]
    ELSE [s1 EXCEPT !.callbackWindowId = callbackWindowId,
                    !.traceEnabled = traceEnabled,
                    !.ret = "null"]

\* release() that does nothing outside CONNECTED
releaseOnlyWhenConnected(s) ==
    IF s.state = "CONNECTED"
    THEN [s EXCEPT !.callbackWindowId = 0, !.traceEnabled = TRUE]
    ELSE s

release(s) == [s EXCEPT !.callbackWindowId = 0, !.traceEnabled = TRUE]

\* FileDownload writing one block with send(block, {longOperation: true});
\* a block that could not be written aborts the Download
downloadStep(s) ==
    LET s1 == send(s, <<"B">>, FALSE, TRUE) IN
    IF s1.writes # <<>>
    THEN [s1 EXCEPT !.longOperation.remaining = @ - 1]
    ELSE [s1 EXCEPT !.longOperation = LongOperationAbort(@)]

\* the callback sendIdn arms with setTimeout
idnTimeout(s) ==
    disconnect(setError(s, "NONE", "Timeout (no response to IDN query)."))

-----------------------------------------------------------------------------
(* Initial state: a Connection just constructed *)

\* nobody watches the status channel; an IpcConnection just constructed
NoMirror ==
    [subscribed |-> FALSE, queue |-> <<>>,
     proxy |-> [state |-> "IDLE", errorCode |-> "NONE", error |-> undefinedMsg]]

\* no message between the contexts, nobody blocked in a synchronous call
NoIpc == [calls |-> <<>>, waiting |-> FALSE, returnValue |-> "none"]

\* the registry of each context before createConnection
NoConnections == [main |-> "none", renderer |-> "none"]

\* createConnection(instrument): a Connection in the owning context, an
\* IpcConnection in a renderer, set under the instrument's id
createConnection(c, isRenderer) ==
    IF isRenderer
    THEN [c EXCEPT !.renderer = "IpcConnection"]
    ELSE [c EXCEPT !.main = "Connection"]

NoProbe == [payload |-> <<>>, block |-> <<>>, trailer |-> <<>>, wire |-> <<>>,
            cuts |-> <<>>, payloads |-> <<>>, text |-> <<>>]

Init ==
    /\ instrument = [lastConnection |-> "ethernet"]
    /\ conn = [state |-> "IDLE", errorCode |-> "NONE", error |-> undefinedMsg,
               communicationInterface |-> "undefined", wasConnected |-> FALSE,
               data |-> undefinedStr, idnExpected |-> FALSE,
               idnExpectedTimeout |-> FALSE, dataTimeoutId |-> FALSE,
               longOperation |-> NoLongOperation,
               connectionParameters |-> "undefined",
               housekeepingIntervalId |-> FALSE,
               callbackWindowId |-> 0, traceEnabled |-> TRUE]
    /\ rt = [dataTimer |-> FALSE, idnTimer |-> FALSE, staleIdnTimers |-> 0,
             interval |-> FALSE, link |-> "down", closing |-> FALSE,
             idnFired |-> FALSE]
    /\ eff = NoEff
    /\ probe = NoProbe
    /\ mirror = NoMirror
    /\ ipc = NoIpc
    /\ connections = createConnection(NoConnections, FALSE)

-----------------------------------------------------------------------------
(* Calls of the owning context *)

\* the commands a caller sends
Commands == {<<"C">>}
\* the window ids of the controllers that acquire the connection
WindowIds == {1}

Connect == Handle(connect(Begin("connect")))

Disconnect == Handle(disconnect(Begin("disconnect")))

Send ==
    \E command \in Commands, optLog \in BOOLEAN :
        Handle(send(Begin("send"), command, optLog, FALSE))

Download ==
    \E blocks \in 1..MaxBlocks : Handle(download(Begin("download"), blocks))

AbortLongOperation == Handle(abortLongOperation(Begin("abortLongOperation")))

Acquire ==
    \E id \in WindowIds, trace \in BOOLEAN :
        Handle(acquire(Begin("acquire"), id, trace))

Release == Handle(release(Begin("release")))

DismissError == Handle(dismissError(Begin("dismissError")))

-----------------------------------------------------------------------------
(* Events of the Transport *)

\* The "connected" callback.  The callback contract does not order it with
\* respect to a disconnect() issued while the Transport is still opening.
TransportConnected ==
    /\ rt.link = "opening"
    /\ ~(rt.idnTimer /\ rt.staleIdnTimers >= MaxStale)
    /\ Handle(connected([Begin("connected") EXCEPT !.link = "up"]))

\* The "disconnected" callback: on request, on failure to open, on loss.
TransportDisconnected ==
    /\ rt.link # "down"
    /\ Handle(disconnected([Begin("disconnected") EXCEPT
                               !.link = "down", !.closing = FALSE]))

\* The Transport reports an error through setError.
TransportError ==
    /\ rt.link # "down"
    /\ Handle(setError(Begin("error"), "TRANSPORT", "transport error"))

\* The "data" callback with one chunk.
TransportData ==
    /\ rt.link = "up"
    /\ \E data \in Chunks :
        /\ IF conn.longOperation.kind = "upload"
           THEN conn.longOperation.fed + Len(data) <= MaxFed
           ELSE IF conn.longOperation.kind = "download"
           THEN TRUE
           ELSE IF conn.data = undefinedStr
           THEN TRUE
           ELSE Len(conn.data) + Len(data) <= MaxData
        /\ Handle(onData(Begin("data"), data))

-----------------------------------------------------------------------------
(* Timers *)

\* the coalescing timer armed by onData fires
DataTimeout ==
    /\ rt.dataTimer
    /\ Handle(flushData([Begin("dataTimeout") EXCEPT !.dataTimer = FALSE]))

\* the identification timer of the latest sendIdn fires
IdnTimeout ==
    /\ rt.idnTimer
    /\ Handle(idnTimeout([Begin("idnTimeout") EXCEPT
                            !.idnTimer = FALSE, !.idnFired = TRUE]))

\* an identification timer armed by an earlier sendIdn, never cleared, fires
StaleIdnTimeout ==
    /\ rt.staleIdnTimers > 0
    /\ Handle(idnTimeout([Begin("idnTimeout") EXCEPT
                            !.staleIdnTimers = @ - 1, !.idnFired = TRUE]))

\* the housekeeping interval ticks
Housekeeping ==
    /\ rt.interval
    /\ Handle(housekeeping(Begin("housekeeping")))

\* the active Download writes its next block
DownloadStep ==
    /\ conn.longOperation.kind = "download"
    /\ ~IsDone(conn.longOperation)
    /\ Handle(downloadStep(Begin("downloadStep")))

Next ==
    \/ Connect
    \/ Disconnect
    \/ Send
    \/ Download
    \/ AbortLongOperation
    \/ Acquire
    \/ Release
    \/ DismissError
    \/ TransportConnected
    \/ TransportDisconnected
    \/ TransportError
    \/ TransportData
    \/ DataTimeout
    \/ IdnTimeout
    \/ StaleIdnTimeout
    \/ Housekeeping
    \/ DownloadStep

Spec == Init /\ [][Next]_vars

-----------------------------------------------------------------------------
(* An upload exchange: the instrument sends one length-prefixed block and   *)
(* a trailer of line data; the Transport delivers the bytes in chunks cut   *)
(* anywhere.                                                                *)

\* n as w decimal digits, zero-padded
RECURSIVE EncodeLength(_, _)
EncodeLength(n, w) ==
    IF w = 0 THEN <<>>
    ELSE Append(EncodeLength(n \div 10, w - 1), DigitOf[(n % 10) + 1])

\* the block '#', width digit, length digits, payload
Block(payload, w) ==
    <<Marker, DigitOf[w + 1]>> \o EncodeLength(Len(payload), w) \o payload

UploadPayloads == UNION {StringsOfLen(n) : n \in 0..MaxPayload}

\* line data that follows the block
Trailers == {<<>>, <<LF>>, <<"1">>, <<"1", LF>>}

\* the Connection after connect(), "connected" and the identification line
ConnectedSession ==
    [state |-> "CONNECTED", errorCode |-> "NONE", error |-> undefinedMsg,
     communicationInterface |-> "ethernet", wasConnected |-> TRUE,
     data |-> undefinedStr, idnExpected |-> FALSE,
     idnExpectedTimeout |-> FALSE, dataTimeoutId |-> FALSE,
     longOperation |-> NoLongOperation,
     connectionParameters |-> "ethernet",
     housekeepingIntervalId |-> TRUE,
     callbackWindowId |-> 0, traceEnabled |-> TRUE]

InitUpload ==
    /\ instrument = [lastConnection |-> "ethernet"]
    /\ conn = ConnectedSession
    /\ rt = [dataTimer |-> FALSE, idnTimer |-> FALSE, staleIdnTimers |-> 0,
             interval |-> TRUE, link |-> "up", closing |-> FALSE,
             idnFired |-> FALSE]
    /\ eff = NoEff
    /\ mirror = NoMirror
    /\ ipc = NoIpc
    /\ connections = createConnection(NoConnections, FALSE)
    /\ \E payload \in UploadPayloads, w \in 1..MaxWidth, trailer \in Trailers :
          probe = [payload |-> payload, block |-> Block(payload, w),
                   trailer |-> trailer, wire |-> Block(payload, w) \o trailer,
                   cuts |-> <<>>, payloads |-> <<>>, text |-> <<>>]

\* the answers a handler logged to the activity log
Answers(log) ==
    SelectSeq(log, LAMBDA e : e.type = "instrument/answer")

RECURSIVE Concat(_)
Concat(ss) == IF ss = <<>> THEN <<>> ELSE Head(ss) \o Concat(Tail(ss))

\* what the instrument's side sees of a handler: the payloads of the
\* transfers completed and the text of the answers logged
Observe(s) ==
    [probe EXCEPT
        !.payloads = @ \o [i \in 1..Len(s.done) |-> s.done[i].payload],
        !.text = @ \o Concat([i \in 1..Len(Answers(s.log)) |->
                                  Answers(s.log)[i].message])]

\* the Transport delivers the next n bytes of the wire as one chunk
UploadDeliver ==
    \E n \in 1..MaxChunk :
        /\ n <= Len(probe.wire)
        /\ LET s == onData(Begin("data"), SubSeq(probe.wire, 1, n)) IN
           /\ Commit(s)
           /\ UNCHANGED mirror
           /\ probe' = [Observe(s) EXCEPT
                           !.wire = SubSeq(@, n + 1, Len(@)),
                           !.cuts = Append(@, n)]

\* the coalescing timer fires between two chunks
UploadFlush ==
    /\ rt.dataTimer
    /\ LET s == flushData([Begin("dataTimeout") EXCEPT !.dataTimer = FALSE]) IN
       /\ Commit(s)
       /\ UNCHANGED mirror
       /\ probe' = Observe(s)

\* the housekeeping interval ticks between two chunks
UploadTick ==
    /\ rt.interval
    /\ LET s == housekeeping(Begin("housekeeping")) IN
       /\ Commit(s)
       /\ UNCHANGED mirror
       /\ probe' = Observe(s)

NextUpload ==
    \/ UploadDeliver
    \/ UploadFlush
    \/ UploadTick

SpecUpload == InitUpload /\ [][NextUpload]_vars

-----------------------------------------------------------------------------
(* The exchanges of an identified session, with a caller that starts long   *)
(* operations of its own through startLongOperation.                        *)

InitOps ==
    /\ instrument = [lastConnection |-> "ethernet"]
    /\ conn = ConnectedSession
    /\ rt = [dataTimer |-> FALSE, idnTimer |-> FALSE, staleIdnTimers |-> 0,
             interval |-> TRUE, link |-> "up", closing |-> FALSE,
             idnFired |-> FALSE]
    /\ eff = NoEff
    /\ probe = NoProbe
    /\ mirror = NoMirror
    /\ ipc = NoIpc
    /\ connections = createConnection(NoConnections, FALSE)

\* a caller starts a long operation that is not a file transfer; ret is
\* the error startLongOperation threw
StartLongOperation ==
    LET r == startLongOperation(Begin("startLongOperation"), OtherOperation) IN
    Handle([r[1] EXCEPT !.ret = IF r[2] = "" THEN "started" ELSE r[2]])

NextOps ==
    \/ StartLongOperation
    \/ Download
    \/ DownloadStep
    \/ AbortLongOperation
    \/ Send
    \/ Acquire
    \/ Release
    \/ Disconnect
    \/ TransportDisconnected
    \/ TransportData
    \/ DataTimeout
    \/ Housekeeping

SpecOps == InitOps /\ [][NextOps]_vars

-----------------------------------------------------------------------------
(* An identified session used by the controllers of two windows through    *)
(* the IPC server.                                                          *)

\* the window ids of the two controllers
OwnerIds == {1, 2}

\* ipcMain.on("instrument/connection/acquire") for a registered connection
IpcAcquire ==
    \E id \in OwnerIds, trace \in BOOLEAN :
        Handle(acquire(Begin("acquire"), id, trace))

\* ipcMain.on("instrument/connection/release") for a registered connection
IpcRelease == Handle(release(Begin("release")))

NextOwners ==
    \/ IpcAcquire
    \/ IpcRelease
    \/ Send
    \/ Download
    \/ DownloadStep
    \/ AbortLongOperation
    \/ Disconnect
    \/ TransportDisconnected
    \/ TransportData
    \/ DataTimeout
    \/ Housekeeping

SpecOwners == InitOps /\ [][NextOwners]_vars

\* The same session once window 1 has acquired it with tracing off, and
\* nobody releases: every later owner has overwritten an earlier one.
InitContend ==
    /\ instrument = [lastConnection |-> "ethernet"]
    /\ conn = [ConnectedSession EXCEPT !.callbackWindowId = 1,
                                       !.traceEnabled = FALSE]
    /\ rt = [dataTimer |-> FALSE, idnTimer |-> FALSE, staleIdnTimers |-> 0,
             interval |-> TRUE, link |-> "up", closing |-> FALSE,
             idnFired |-> FALSE]
    /\ eff = NoEff
    /\ probe = NoProbe
    /\ mirror = NoMirror
    /\ ipc = NoIpc
    /\ connections = createConnection(NoConnections, FALSE)

NextContend ==
    \/ IpcAcquire
    \/ Send
    \/ Disconnect
    \/ TransportDisconnected
    \/ TransportData
    \/ DataTimeout
    \/ Housekeeping

SpecContend == InitContend /\ [][NextContend]_vars

-----------------------------------------------------------------------------
(* The status channel: an IpcConnection in another context watches the      *)
(* Connection's notify source; the channel delivers in the order sent.      *)

\* the watch callback of IpcConnection that copies the state only
watchCallbackStateOnly(p, connectionStatus) ==
    [p EXCEPT !.state = connectionStatus.state]

\* the callback the IpcConnection constructor passes to watch()
watchCallback(p, connectionStatus) ==
    [p EXCEPT !.state = connectionStatus.state,
              !.errorCode = connectionStatus.errorCode,
              !.error = connectionStatus.error]

\* new IpcConnection(instrument): watch() registers the target, and the
\* notify source's onNewTarget sends the current status to it
Subscribe ==
    /\ ~mirror.subscribed
    /\ mirror' = sendConnectionStatusMessage(
                     [mirror EXCEPT !.subscribed = TRUE], StatusOf(conn))
    /\ eff' = [NoEff EXCEPT !.op = "onNewTarget"]
    /\ UNCHANGED <<conn, rt, instrument, probe, ipc, connections>>

\* the channel delivers its oldest message to the watch callback
Deliver ==
    /\ mirror.queue # <<>>
    /\ mirror' = [mirror EXCEPT
                     !.proxy = watchCallback(@, Head(mirror.queue)),
                     !.queue = Tail(@)]
    /\ UNCHANGED <<conn, rt, eff, instrument, probe, ipc, connections>>

\* the instrument answers the identification query with one whole line, a
\* number or a text, in one chunk
IdnAnswer ==
    /\ rt.link = "up"
    /\ conn.idnExpected
    /\ conn.data = undefinedStr
    /\ \E data \in {<<"1", LF>>, <<LF>>} :
          Handle(onData(Begin("data"), data))

\* the channel has room for what the handler sent
Room == Len(mirror'.queue) <= MaxQueue

\* the handlers of the Connection that assign state, errorCode or error,
\* the subscription and the deliveries
NextProxy ==
    \/ Connect /\ Room
    \/ Disconnect /\ Room
    \/ Send /\ Room
    \/ DismissError /\ Room
    \/ TransportConnected /\ Room
    \/ TransportDisconnected /\ Room
    \/ TransportError /\ Room
    \/ IdnAnswer /\ Room
    \/ IdnTimeout /\ Room
    \/ StaleIdnTimeout /\ Room
    \/ Subscribe
    \/ Deliver

SpecProxy == Init /\ [][NextProxy]_vars

-----------------------------------------------------------------------------
(* Sessions of an instrument whose stored connection parameters are of      *)
(* either type.                                                             *)

\* connectionParameters.type
ConnectionParameterTypes == {"ethernet", "serial"}

InitParams ==
    /\ instrument \in [lastConnection : ConnectionParameterTypes]
    /\ conn = [state |-> "IDLE", errorCode |-> "NONE", error |-> undefinedMsg,
               communicationInterface |-> "undefined", wasConnected |-> FALSE,
               data |-> undefinedStr, idnExpected |-> FALSE,
               idnExpectedTimeout |-> FALSE, dataTimeoutId |-> FALSE,
               longOperation |-> NoLongOperation,
               connectionParameters |-> "undefined",
               housekeepingIntervalId |-> FALSE,
               callbackWindowId |-> 0, traceEnabled |-> TRUE]
    /\ rt = [dataTimer |-> FALSE, idnTimer |-> FALSE, staleIdnTimers |-> 0,
             interval |-> FALSE, link |-> "down", closing |-> FALSE,
             idnFired |-> FALSE]
    /\ eff = NoEff
    /\ probe = NoProbe
    /\ mirror = NoMirror
    /\ ipc = NoIpc
    /\ connections = createConnection(NoConnections, FALSE)

NextParams ==
    \/ Connect
    \/ Disconnect
    \/ Send
    \/ DismissError
    \/ TransportConnected
    \/ TransportDisconnected
    \/ TransportError
    \/ IdnTimeout
    \/ StaleIdnTimeout

SpecParams == InitParams /\ [][NextParams]_vars

-----------------------------------------------------------------------------
(* Properties *)

NotConnectedLine == <<"**ERROR: not connected\n">>
TransferInProgressLine == <<"**ERROR: file transfer in progress\n">>
AnotherOperationLine == <<"**ERROR: another operation in progress\n">>
ErrorLines == {NotConnectedLine, TransferInProgressLine, AnotherOperationLine}

LastAnswerIs(log, line) ==
    /\ log # <<>>
    /\ log[Len(log)] = [type |-> "instrument/answer", message |-> line]

\* C1: connect() called while the state is CONNECTING, CONNECTED or
\* DISCONNECTING is a local fault: the Connection (state, errorCode, error,
\* Transport reference and every other field), the timers and the link are
\* unchanged and no Transport connect is requested.
C1_ConnectWhenNotIdle ==
    [][(eff'.op = "connect" /\ conn.state # "IDLE") =>
          /\ conn' = conn
          /\ rt' = rt
          /\ eff'.tconnect = 0
          /\ eff'.fault = <<"invalid state (connect)">>]_vars

C1_Witness ==
    /\ eff.op = "connect"
    /\ eff.fault = <<"invalid state (connect)">>
    /\ conn.state = "DISCONNECTING"

\* C2 as claimed: send() of a command not marked long-operation-initiating
\* while a LongOperation is active always logs a synthetic error line, writes
\* nothing, and leaves the LongOperation, the state and the error unchanged.
C2_SendDuringLongOperationAlwaysAnswers ==
    [][(eff'.op = "send" /\ Active(conn.longOperation)) =>
          /\ \E i \in 1..Len(eff'.log) :
                /\ eff'.log[i].type = "instrument/answer"
                /\ eff'.log[i].message \in ErrorLines
          /\ eff'.writes = <<>>
          /\ conn' = conn]_vars

\* C2 as amended: such a send() writes nothing and changes nothing in the
\* Connection; it logs the error line ("file transfer in progress" when
\* CONNECTED, "not connected" otherwise) exactly when tracing is enabled,
\* and logs no answer at all when the acquirer disabled tracing.
C2_SendDuringLongOperation ==
    [][(eff'.op = "send" /\ Active(conn.longOperation)) =>
          /\ eff'.writes = <<>>
          /\ conn' = conn
          /\ rt' = rt
          /\ IF conn.traceEnabled
             THEN LastAnswerIs(eff'.log,
                     IF conn.state # "CONNECTED" THEN NotConnectedLine
                     ELSE IF IsFileTransfer(conn.longOperation)
                     THEN TransferInProgressLine
                     ELSE AnotherOperationLine)
             ELSE eff'.log = <<>>]_vars

C2_Witness ==
    /\ eff.op = "send"
    /\ conn.state = "CONNECTED"
    /\ Active(conn.longOperation)
    /\ LastAnswerIs(eff.log, TransferInProgressLine)
    /\ eff.writes = <<>>

\* C3 as claimed: send() while the state is not CONNECTED, or without a
\* Transport, always logs the "not connected" error line, writes nothing and
\* leaves state, errorCode and error unchanged.
C3_SendWhenNotConnectedAlwaysAnswers ==
    [][(/\ eff'.op = "send"
        /\ (conn.state # "CONNECTED" \/ conn.communicationInterface = "undefined")) =>
          /\ LastAnswerIs(eff'.log, NotConnectedLine)
          /\ eff'.writes = <<>>
          /\ conn' = conn]_vars

\* C3 as amended: such a send() writes nothing and changes nothing in the
\* Connection; it logs the "not connected" line exactly when tracing is
\* enabled, and logs nothing when the acquirer disabled tracing.
C3_SendWhenNotConnected ==
    [][(/\ eff'.op = "send"
        /\ (conn.state # "CONNECTED" \/ conn.communicationInterface = "undefined")) =>
          /\ eff'.writes = <<>>
          /\ conn' = conn
          /\ rt' = rt
          /\ IF conn.traceEnabled
             THEN LastAnswerIs(eff'.log, NotConnectedLine)
             ELSE eff'.log = <<>>]_vars

C3_Witness ==
    /\ eff.op = "send"
    /\ conn.state = "DISCONNECTING"
    /\ LastAnswerIs(eff.log, NotConnectedLine)
    /\ eff.writes = <<>>

\* C4 as claimed: while a Transport disconnect requested by disconnect() is
\* not yet confirmed by the "disconnected" event, no handler writes to the
\* Transport.
C4_NoWriteWhileDisconnecting ==
    [][rt.closing => eff'.writes = <<>>]_vars

\* a string holds exactly one terminator, as its last byte
Terminated(line) == line # <<>> /\ IndexAfterLF(line, 1) = Len(line)
\* a string holds no terminator
Partial(line) == IndexAfterLF(line, 1) = 0

\* C5 as claimed: the lines dispatched are exactly the terminator-delimited
\* lines of the bytes received: every dispatched line is one
\* terminator-delimited line, no complete line stays behind in the frame
\* buffer when a handler returns, and what the coalescing timer
\* force-flushes is a partial line (it holds no terminator).
C5_FramerEmitsExactlyTerminatedLines ==
    /\ \A i \in 1..Len(eff.lines) : Terminated(eff.lines[i])
    /\ conn.data # undefinedStr => Partial(conn.data)
    /\ eff.op = "dataTimeout" =>
          \A i \in 1..Len(eff.log) : Partial(eff.log[i].message)

\* the frame buffer as a string
Buffer == IF conn.data = undefinedStr THEN <<>> ELSE conn.data

\* C6: a correct block cut into chunks anywhere yields exactly one
\* completed transfer, whose payload is the payload sent: until the last
\* byte of the block is delivered the Upload is active and nothing is
\* emitted; from then on there is no LongOperation, one transfer has
\* completed with the original payload, the bytes of the completing chunk
\* after the block were its dataSurplus, and the trailer bytes delivered so
\* far are line data: the lines emitted followed by the frame buffer.
C6_UploadRoundTrip ==
    LET sent == Len(probe.block) + Len(probe.trailer) - Len(probe.wire)
        over == sent - Len(probe.block)
    IN  IF sent = 0
        THEN probe.payloads = <<>> /\ ~Active(conn.longOperation)
        ELSE IF sent < Len(probe.block)
        THEN /\ conn.longOperation.kind = "upload"
             /\ ~IsDone(conn.longOperation)
             /\ probe.payloads = <<>>
             /\ probe.text = <<>>
             /\ conn.data = undefinedStr
        ELSE /\ ~Active(conn.longOperation)
             /\ probe.payloads = <<probe.payload>>
             /\ probe.text \o Buffer = SubSeq(probe.trailer, 1, over)
             /\ eff.done # <<>> =>
                   /\ Len(eff.done) = 1
                   /\ eff.done[1].phase = "done"
                   /\ eff.done[1].dataSurplus =
                         IF over = 0 THEN undefinedStr
                         ELSE SubSeq(probe.trailer, 1, over)

\* a block with a two-digit length field, cut inside the length digits
\* (after "#20"), inside the payload, and with the last payload byte and
\* the first trailer byte in one chunk
C6_Witness ==
    /\ probe.block = <<Marker, "2", "0", "2", "1", LF>>
    /\ probe.trailer = <<"1", LF>>
    /\ probe.cuts = <<2, 1, 2, 2, 1>>
    /\ probe.wire = <<>>
    /\ probe.payloads = <<<<"1", LF>>>>
    /\ probe.text = <<"1", LF>>
    /\ conn.data = undefinedStr

TimeoutMsg == "Timeout (no response to IDN query)."
InvalidIdnMsg == "Invalid IDN value."

\* C7 as claimed: every run of the identification timeout sets the timeout
\* error and leaves the Connection DISCONNECTING, and it runs at most once
\* in a session (since the last "connected" event).
C7_IdnTimeoutOncePerSession ==
    [][eff'.op = "idnTimeout" =>
          /\ conn'.error = TimeoutMsg
          /\ conn'.state = "DISCONNECTING"
          /\ ~rt.idnFired]_vars

\* C8: when onData dispatches a completed line while identification is
\* expected, the expectation flag is cleared and the identification timer of
\* this session is cancelled; a line that does not parse to a string sets
\* the error "Invalid IDN value." and calls disconnect() (the state becomes
\* DISCONNECTING, one Transport disconnect is requested); a line that parses
\* to a string is forwarded to the instrument with setIdn and the state is
\* left as it was (CONNECTED stays CONNECTED), with no disconnect.
C8_IdnLineCompletesHandshake ==
    [][(eff'.op = "data" /\ conn.idnExpected /\ eff'.lines # <<>>) =>
          /\ ~conn'.idnExpected
          /\ ~conn'.idnExpectedTimeout
          /\ ~rt'.idnTimer
          /\ IF parseScpiValue(eff'.lines[1]) # "string"
             THEN /\ conn'.error = InvalidIdnMsg
                  /\ conn'.errorCode = "NONE"
                  /\ conn'.state = "DISCONNECTING"
                  /\ eff'.tdisconnect = 1
                  /\ eff'.setIdn = <<>>
             ELSE /\ eff'.setIdn = <<eff'.lines[1]>>
                  /\ conn'.state = conn.state
                  /\ conn'.error = conn.error
                  /\ eff'.tdisconnect = 0]_vars

C8_Witness ==
    /\ eff.op = "data"
    /\ eff.lines = <<<<"1", LF>>>>
    /\ eff.tdisconnect = 1
    /\ conn.error = InvalidIdnMsg
    /\ conn.state = "DISCONNECTING"
    /\ ~conn.idnExpected
    /\ ~rt.idnTimer

\* C9: the "disconnected" event leaves the Connection IDLE, without
\* Transport reference and without LongOperation, whatever the state was;
\* and in every reachable state IDLE implies no active LongOperation.
C9_DisconnectedIsIdleWithoutLongOperation ==
    /\ [](conn.state = "IDLE" => ~Active(conn.longOperation))
    /\ [][eff'.op = "disconnected" =>
             /\ conn'.state = "IDLE"
             /\ conn'.communicationInterface = "undefined"
             /\ ~Active(conn'.longOperation)]_vars

C9_Witness ==
    /\ eff.op = "disconnected"
    /\ eff.aborts = <<"upload">>
    /\ conn.state = "IDLE"
    /\ ~Active(conn.longOperation)

\* C10: disconnect() called while the state is IDLE is a local fault: the
\* Connection (state, errorCode, error, buffer, LongOperation), the timers
\* and the link are unchanged and no Transport disconnect is requested.
C10_DisconnectWhenIdle ==
    [][(eff'.op = "disconnect" /\ conn.state = "IDLE") =>
          /\ conn' = conn
          /\ rt' = rt
          /\ eff'.tdisconnect = 0
          /\ eff'.fault = <<"invalid state (disconnect)">>]_vars

C10_Witness ==
    /\ eff.op = "disconnect"
    /\ eff.fault = <<"invalid state (disconnect)">>
    /\ conn.state = "IDLE"
    /\ conn.error # undefinedMsg

\* C11 as claimed: disconnect() in CONNECTED or CONNECTING sets DISCONNECTING
\* and asks the Transport to disconnect, and a Connection in DISCONNECTING
\* stays there until the "disconnected" event makes it IDLE.
C11_DisconnectingUntilDisconnected ==
    [][/\ (eff'.op = "disconnect" /\ conn.state \in {"CONNECTED", "CONNECTING"}) =>
            (conn'.state = "DISCONNECTING" /\ eff'.tdisconnect = 1)
       /\ conn.state = "DISCONNECTING" =>
            \/ conn'.state = "DISCONNECTING"
            \/ eff'.op = "disconnected" /\ conn'.state = "IDLE"]_vars

\* C13 as claimed: the state becomes CONNECTED only from CONNECTING, by the
\* "connected" event.
C13_ConnectedOnlyFromConnecting ==
    [][(conn'.state = "CONNECTED" /\ conn.state # "CONNECTED") =>
          (conn.state = "CONNECTING" /\ eff'.op = "connected")]_vars

\* C16: acquire() while the state is not CONNECTED returns "not connected"
\* and changes nothing in the Connection (owner and tracing flag included);
\* acquire() while CONNECTED returns null.
C16_AcquireNeedsConnected ==
    [][eff'.op = "acquire" =>
          IF conn.state # "CONNECTED"
          THEN eff'.ret = "not connected" /\ conn' = conn /\ rt' = rt
          ELSE eff'.ret = "null"]_vars

\* acquire() refused in DISCONNECTING while an earlier acquirer, which had
\* disabled tracing, is still the owner
C16_Witness ==
    /\ eff.op = "acquire"
    /\ eff.ret = "not connected"
    /\ eff.args = <<1, TRUE>>
    /\ conn.state = "DISCONNECTING"
    /\ conn.callbackWindowId = 1
    /\ ~conn.traceEnabled

\* C19: dismissError() in any state clears the error message and changes
\* nothing else: the other fields of the Connection, the timers and the
\* Transport are as before, and nothing is written, logged or requested.
C19_DismissErrorClearsOnlyMessage ==
    [][eff'.op = "dismissError" =>
          /\ conn' = [conn EXCEPT !.error = undefinedMsg]
          /\ rt' = rt
          /\ eff' = [NoEff EXCEPT !.op = "dismissError"]]_vars

\* a Transport error dismissed during a session with an active Download:
\* the error code stays
C19_Witness ==
    /\ eff.op = "dismissError"
    /\ conn.state = "CONNECTED"
    /\ conn.errorCode = "TRANSPORT"
    /\ conn.error = undefinedMsg
    /\ conn.longOperation.kind = "download"
    /\ conn.callbackWindowId = 1

Refused(c) ==
    \/ c.state # "CONNECTED"
    \/ c.communicationInterface = "undefined"
    \/ Active(c.longOperation)

\* the error it reports then
StartError(c) ==
    IF c.state # "CONNECTED" \/ c.communicationInterface = "undefined"
    THEN "not connected"
    ELSE IF IsFileTransfer(c.longOperation)
    THEN "file transfer in progress"
    ELSE "another operation in progress"

C15_AbortTakesEffectSynchronously ==
    [][/\ eff'.op = "abortLongOperation" => ~Active(conn'.longOperation)
       /\ (/\ eff.op = "abortLongOperation"
           /\ eff'.op \in {"send", "download"}
           /\ conn.state = "CONNECTED"
           /\ conn.traceEnabled) =>
              /\ ~LastAnswerIs(eff'.log, TransferInProgressLine)
              /\ ~LastAnswerIs(eff'.log, AnotherOperationLine)]_vars

\* the values a handler owes to window w: one per long operation completed,
\* then one per line dispatched
ValuesFor(w, e) ==
    [i \in 1..Len(e.done) |->
        [to |-> w, value |-> [type |-> "logEntry", of |-> e.done[i].payload]]]
    \o
    [i \in 1..Len(e.lines) |->
        [to |-> w, value |-> [type |-> parseScpiValue(e.lines[i]),
                              of |-> e.lines[i]]]]

\* the request and answer entries of a log
Traced(log) ==
    SelectSeq(log, LAMBDA e : e.type \in {"instrument/request", "instrument/answer"})

C18_SecondAcquireOverwrites ==
    /\ [](\A i \in 1..Len(eff.values) :
             eff.values[i].to = conn.callbackWindowId)
    /\ [][(/\ eff'.op = "acquire"
           /\ conn.state = "CONNECTED"
           /\ conn.callbackWindowId # 0) =>
              /\ eff'.ret = "null"
              /\ conn' = [conn EXCEPT !.callbackWindowId = eff'.args[1],
                                      !.traceEnabled = eff'.args[2]]
              /\ rt' = rt]_vars

\* window 1 had acquired the connection and never released it; after the
\* acquire of window 2 a line is delivered to window 2 only
C18_Witness ==
    /\ eff.op = "data"
    /\ conn.callbackWindowId = 2
    /\ conn.traceEnabled
    /\ Len(eff.lines) = 1
    /\ Len(eff.values) = 1
    /\ eff.values[1].to = 2

\* C20: the channel being first-in first-out, the proxy changes only by
\* taking the oldest message in flight; the last status sent is always the
\* Connection's current (state, errorCode, error), so that once every message
\* is delivered the proxy's (state, errorCode, error) equal the Connection's;
\* a proxy that subscribes is sent the current status.
C20_ProxyConverges ==
    /\ [](mirror.subscribed =>
             IF mirror.queue = <<>>
             THEN mirror.proxy = StatusOf(conn)
             ELSE mirror.queue[Len(mirror.queue)] = StatusOf(conn))
    /\ [][/\ mirror'.proxy # mirror.proxy =>
                /\ mirror.queue # <<>>
                /\ mirror'.proxy = Head(mirror.queue)
                /\ mirror'.queue = Tail(mirror.queue)
          /\ (~mirror.subscribed /\ mirror'.subscribed) =>
                mirror'.queue = <<StatusOf(conn')>>]_vars

\* the proxy has caught up with a session the identification timeout is
\* closing: error code, timeout message and DISCONNECTING all mirrored
C20_Witness ==
    /\ mirror.subscribed
    /\ mirror.queue = <<>>
    /\ conn.state = "DISCONNECTING"
    /\ conn.error = TimeoutMsg
    /\ mirror.proxy = [state |-> "DISCONNECTING", errorCode |-> "NONE",
                       error |-> TimeoutMsg]

-----------------------------------------------------------------------------
(* Construction: instruments with and without stored connection parameters, *)
(* configured to connect automatically or not.                              *)

\* the fields of a Connection as their declarations initialise them
NewConnection ==
    [state |-> "IDLE", errorCode |-> "NONE", error |-> undefinedMsg,
     communicationInterface |-> "undefined", wasConnected |-> FALSE,
     data |-> undefinedStr, idnExpected |-> FALSE,
     idnExpectedTimeout |-> FALSE, dataTimeoutId |-> FALSE,
     longOperation |-> NoLongOperation,
     connectionParameters |-> "undefined",
     housekeepingIntervalId |-> FALSE,
     callbackWindowId |-> 0, traceEnabled |-> TRUE]

\* no timer pending, no Transport
NewRuntime ==
    [dataTimer |-> FALSE, idnTimer |-> FALSE, staleIdnTimers |-> 0,
     interval |-> FALSE, link |-> "down", closing |-> FALSE,
     idnFired |-> FALSE]

\* new Connection(instrument): connect() when the instrument has a last
\* connection and autoConnect
constructor(inst) ==
    LET s == NewConnection @@ NewRuntime @@ [NoEff EXCEPT !.op = "constructor"]
    IN  IF inst.lastConnection # "undefined" /\ inst.autoConnect
        THEN connect(s)
        ELSE s

InitAuto ==
    /\ instrument \in [lastConnection : {"undefined", "ethernet"},
                        autoConnect : BOOLEAN]
    /\ LET s == constructor(instrument) IN
           /\ conn = [f \in ConnFields |-> s[f]]
           /\ rt = [f \in RtFields |-> s[f]]
           /\ eff = [f \in EffFields |-> s[f]]
    /\ probe = NoProbe
    /\ mirror = NoMirror
    /\ ipc = NoIpc
    /\ connections = createConnection(NoConnections, FALSE)

\* connect() by a caller, for an instrument that has connection parameters
ExplicitConnect ==
    /\ instrument.lastConnection # "undefined"
    /\ Connect

NextAuto ==
    \/ ExplicitConnect
    \/ Disconnect
    \/ Send
    \/ DismissError
    \/ TransportConnected
    \/ TransportDisconnected
    \/ TransportError
    \/ IdnAnswer
    \/ IdnTimeout
    \/ StaleIdnTimeout

SpecAuto == InitAuto /\ [][NextAuto]_vars

\* C22: the constructor requests a Transport connect exactly when the
\* instrument has a last connection and is configured to auto-connect;
\* afterwards only connect() requests one: no other handler, the
\* "disconnected" handler included, opens the Transport or takes the
\* Connection out of IDLE.
C22_NoReconnect ==
    /\ [](eff.op = "constructor" =>
            IF instrument.lastConnection # "undefined" /\ instrument.autoConnect
            THEN conn.state = "CONNECTING" /\ eff.tconnect = 1
            ELSE conn.state = "IDLE" /\ eff.tconnect = 0)
    /\ [][/\ eff'.op # "connect" => eff'.tconnect = 0
          /\ (conn.state = "IDLE" /\ eff'.op # "connect") => conn'.state = "IDLE"
          /\ eff'.op = "disconnected" => conn'.state = "IDLE"]_vars

\* the session of an auto-connected instrument ended by the identification
\* timeout: the Connection is IDLE with the timeout as its error and the
\* Transport closed
C22_Witness ==
    /\ instrument.autoConnect
    /\ eff.op = "disconnected"
    /\ conn.state = "IDLE"
    /\ conn.error = TimeoutMsg
    /\ rt.link = "down"
    /\ eff.tconnect = 0

\* C24: send() while CONNECTED with a Transport and no active LongOperation,
\* and the send of a block by the active Download (marked long-operation),
\* set errorCode to NONE and clear the error, write the command followed by
\* one line terminator to the Transport once, and change nothing else: the
\* state stays CONNECTED.
C24_SendWritesOnce ==
    [][/\ (/\ eff'.op = "send"
           /\ conn.state = "CONNECTED"
           /\ conn.communicationInterface # "undefined"
           /\ ~Active(conn.longOperation)) =>
              /\ \E command \in Commands : eff'.writes = <<command \o <<LF>>>>
              /\ conn' = [conn EXCEPT !.errorCode = "NONE", !.error = undefinedMsg]
              /\ rt' = rt
       /\ (/\ eff'.op = "downloadStep"
           /\ conn.state = "CONNECTED"
           /\ conn.communicationInterface # "undefined") =>
              /\ eff'.writes = <<<<"B", LF>>>>
              /\ conn'.state = "CONNECTED"
              /\ conn'.errorCode = "NONE"
              /\ conn'.error = undefinedMsg]_vars

\* a command written during the identification window, with the request
\* logged
C24_Witness ==
    /\ eff.op = "send"
    /\ eff.writes = <<<<"C", LF>>>>
    /\ eff.log = <<[type |-> "instrument/request", message |-> <<"C">>]>>
    /\ conn.state = "CONNECTED"
    /\ conn.idnExpected
    /\ conn.errorCode = "NONE"
    /\ conn.error = undefinedMsg

\* error message and error code agree
Paired(c) == (c.error # undefinedMsg) <=> (c.errorCode # "NONE")

\* C25 as claimed: every operation except dismissError sets and clears error
\* code and message together: it takes a Connection whose error is non-null
\* exactly when errorCode is not NONE to another such.
C25_ErrorCodeAndMessageTogether ==
    [][(eff'.op # "dismissError" /\ Paired(conn)) => Paired(conn')]_vars

\* C26 as claimed: when the coalescing timer fires with a non-empty buffer,
\* the buffer is dispatched like a terminated line: logged when tracing,
\* parsed and its value delivered to the owner, and the identification
\* handshake, if pending, is completed.
C26_FlushDispatchesLine ==
    [][(/\ eff'.op = "dataTimeout"
        /\ conn.data # undefinedStr
        /\ conn.data # <<>>) =>
          /\ eff'.lines = <<conn.data>>
          /\ conn.callbackWindowId # 0 =>
                eff'.values = ValuesFor(conn.callbackWindowId, eff')
          /\ conn.idnExpected =>
                (~conn'.idnExpected /\ ~conn'.idnExpectedTimeout)
          /\ conn'.data = undefinedStr]_vars

\* C27 as claimed: whenever the frame buffer is non-empty and no
\* LongOperation is active, the coalescing timer is armed.
C27_BufferedMeansTimerArmed ==
    (conn.data # undefinedStr /\ conn.data # <<>> /\ ~Active(conn.longOperation))
        => rt.dataTimer

\* C28 as claimed: a handler that completes a LongOperation with surplus
\* leaves no LongOperation behind it, notifies once, and leaves the
\* Connection as the chunk procedure, entered from its first step with the
\* surplus as the chunk, leaves it: buffer, LongOperation, coalescing timer
\* and lines dispatched.
C28_SurplusIsAFreshChunk ==
    [][(/\ eff'.op \in {"data", "housekeeping"}
        /\ eff'.done # <<>>
        /\ eff'.done[1].dataSurplus # undefinedStr) =>
          LET cleared == [conn @@ rt @@ NoEff EXCEPT
                             !.longOperation = NoLongOperation,
                             !.dataTimer = FALSE]
              fresh == onData(cleared, eff'.done[1].dataSurplus)
          IN  /\ Len(eff'.done) = 1
              /\ conn'.longOperation = fresh.longOperation
              /\ conn'.data = fresh.data
              /\ rt'.dataTimer = fresh.dataTimer
              /\ eff'.lines = fresh.lines]_vars

\* C29: when the "disconnected" event has been processed, in whatever
\* state and whether or not the session reached CONNECTED, neither the
\* coalescing timer nor the housekeeping interval is pending.
C29_DisconnectedCancelsTimers ==
    [][eff'.op = "disconnected" =>
          /\ ~rt'.dataTimer
          /\ ~rt'.interval
          /\ ~conn'.dataTimeoutId
          /\ ~conn'.housekeepingIntervalId]_vars

\* a session lost while a partial line was waiting for the coalescing timer
C29_Witness ==
    /\ eff.op = "disconnected"
    /\ Answers(eff.log) = <<[type |-> "instrument/answer", message |-> <<"1">>]>>
    /\ ~rt.dataTimer
    /\ ~rt.interval
    /\ conn.state = "IDLE"

-----------------------------------------------------------------------------
(* A renderer's IpcConnection, the channel to the IPC server of the owning  *)
(* context, and the server's handlers.  The channel delivers in the order   *)
(* sent; a synchronous send blocks the renderer until the handler has set   *)
(* its return value.                                                        *)

\* the messages a renderer has sent that the server has not handled
MaxCalls == 2

\* ipcRenderer.send(channel, arg)
ipcRendererSend(i, channel, arg) ==
    [i EXCEPT !.calls = Append(@, [channel |-> channel, arg |-> arg,
                                   sync |-> FALSE])]

\* ipcRenderer.sendSync(channel, arg)
ipcRendererSendSync(i, channel, arg) ==
    [i EXCEPT !.calls = Append(@, [channel |-> channel, arg |-> arg,
                                   sync |-> TRUE]),
              !.waiting = TRUE]

IpcConnection_dismissError(i) ==
    ipcRendererSend(i, "instrument/connection/dismiss-error", <<>>)

IpcConnection_connect(i) ==
    ipcRendererSend(i, "instrument/connection/connect", <<>>)

IpcConnection_disconnect(i) ==
    ipcRendererSend(i, "instrument/connection/disconnect", <<>>)

IpcConnection_destroy(i) ==
    ipcRendererSend(i, "instrument/connection/destroy", <<>>)

IpcConnection_send(i, command) ==
    ipcRendererSend(i, "instrument/connection/send", <<command>>)

IpcConnection_download(i, instructions) ==
    ipcRendererSend(i, "instrument/connection/download", <<instructions>>)

IpcConnection_abortLongOperation(i) ==
    ipcRendererSend(i, "instrument/connection/abort-long-operation", <<>>)

\* acquire() that does not wait for the reply
IpcConnection_acquireAsync(i, callbackWindowId, traceEnabled) ==
    ipcRendererSend(i, "instrument/connection/acquire",
                    <<callbackWindowId, traceEnabled>>)

IpcConnection_acquire(i, callbackWindowId, traceEnabled) ==
    ipcRendererSendSync(i, "instrument/connection/acquire",
                        <<callbackWindowId, traceEnabled>>)

IpcConnection_release(i) ==
    ipcRendererSendSync(i, "instrument/connection/release", <<>>)

\* the channels of acquire and release
SyncChannels ==
    {"instrument/connection/acquire", "instrument/connection/release"}

\* a call of a method of the IpcConnection by the renderer, which is not
\* blocked in a synchronous send
ProxyCall(i) ==
    /\ connections.renderer = "IpcConnection"
    /\ ~ipc.waiting
    /\ Len(ipc.calls) < MaxCalls
    /\ ipc' = i
    /\ UNCHANGED <<conn, rt, eff, instrument, probe, mirror, connections>>

ProxyDismissError == ProxyCall(IpcConnection_dismissError(ipc))
ProxyConnect == ProxyCall(IpcConnection_connect(ipc))
ProxyDisconnect == ProxyCall(IpcConnection_disconnect(ipc))
ProxyDestroy == ProxyCall(IpcConnection_destroy(ipc))
ProxySend == \E command \in Commands : ProxyCall(IpcConnection_send(ipc, command))
ProxyDownload ==
    \E blocks \in 1..MaxBlocks : ProxyCall(IpcConnection_download(ipc, blocks))
ProxyAbortLongOperation == ProxyCall(IpcConnection_abortLongOperation(ipc))
ProxyAcquire ==
    \E id \in WindowIds : ProxyCall(IpcConnection_acquire(ipc, id, FALSE))
ProxyRelease == ProxyCall(IpcConnection_release(ipc))

\* ipcMain.on(channel): the handler takes the oldest message, looks the
\* instrument up in connections and leaves s; a synchronous message gets
\* event.returnValue and its sender goes on
Serve(channel, s, returnValue) ==
    /\ Head(ipc.calls).channel = channel
    /\ Assign(s)
    /\ mirror' = Published(s)
    /\ Len(mirror'.queue) <= MaxQueue
    /\ ipc' = [calls |-> Tail(ipc.calls),
               waiting |-> ipc.waiting /\ ~Head(ipc.calls).sync,
               returnValue |-> IF Head(ipc.calls).sync
                               THEN returnValue ELSE ipc.returnValue]
    /\ connections' =
          IF channel = "instrument/connection/destroy"
             /\ connections.main # "none"
          THEN [connections EXCEPT !.main = "destroyed Connection"]
          ELSE connections
    /\ UNCHANGED <<instrument, probe>>

\* connections.get(arg.instrumentId)
Registered == connections.main # "none"

ServeConnect ==
    /\ ipc.calls # <<>>
    /\ Serve("instrument/connection/connect",
             IF Registered THEN connect(Begin("connect")) ELSE Begin("connect"),
             "none")

ServeDisconnect ==
    /\ ipc.calls # <<>>
    /\ Serve("instrument/connection/disconnect",
             IF Registered THEN disconnect(Begin("disconnect"))
             ELSE Begin("disconnect"),
             "none")

ServeDestroy ==
    /\ ipc.calls # <<>>
    /\ Serve("instrument/connection/destroy",
             IF Registered THEN destroy(Begin("destroy")) ELSE Begin("destroy"),
             "none")

ServeSend ==
    /\ ipc.calls # <<>>
    /\ Serve("instrument/connection/send",
             IF Registered
             THEN send(Begin("send"), Head(ipc.calls).arg[1], TRUE, FALSE)
             ELSE Begin("send"),
             "none")

ServeDownload ==
    /\ ipc.calls # <<>>
    /\ Serve("instrument/connection/download",
             IF Registered
             THEN download(Begin("download"), Head(ipc.calls).arg[1])
             ELSE Begin("download"),
             "none")

ServeAbortLongOperation ==
    /\ ipc.calls # <<>>
    /\ Serve("instrument/connection/abort-long-operation",
             IF Registered THEN abortLongOperation(Begin("abortLongOperation"))
             ELSE Begin("abortLongOperation"),
             "none")

ServeDismissError ==
    /\ ipc.calls # <<>>
    /\ Serve("instrument/connection/dismiss-error",
             IF Registered THEN dismissError(Begin("dismissError"))
             ELSE Begin("dismissError"),
             "none")

ServeAcquire ==
    /\ ipc.calls # <<>>
    /\ LET s == IF Registered
                THEN acquire(Begin("acquire"), Head(ipc.calls).arg[1],
                             Head(ipc.calls).arg[2])
                ELSE Begin("acquire")
       IN  Serve("instrument/connection/acquire", s,
                 IF Registered THEN s.ret ELSE "false")

ServeRelease ==
    /\ ipc.calls # <<>>
    /\ Serve("instrument/connection/release",
             IF Registered THEN release(Begin("release")) ELSE Begin("release"),
             "true")

\* both contexts have called createConnection and the session is
\* connected and identified; the IpcConnection's constructor has called
\* watch() and the status of the Connection is on its way
InitIpc ==
    /\ instrument = [lastConnection |-> "ethernet"]
    /\ conn = ConnectedSession
    /\ rt = [NewRuntime EXCEPT !.interval = TRUE, !.link = "up"]
    /\ eff = NoEff
    /\ probe = NoProbe
    /\ mirror = sendConnectionStatusMessage(
                    [NoMirror EXCEPT !.subscribed = TRUE], StatusOf(ConnectedSession))
    /\ ipc = NoIpc
    /\ connections = createConnection(createConnection(NoConnections, FALSE), TRUE)

NextIpc ==
    \/ ProxyDismissError
    \/ ProxyConnect
    \/ ProxyDisconnect
    \/ ProxyDestroy
    \/ ProxySend
    \/ ProxyDownload
    \/ ProxyAbortLongOperation
    \/ ProxyAcquire
    \/ ProxyRelease
    \/ ServeDismissError
    \/ ServeConnect
    \/ ServeDisconnect
    \/ ServeDestroy
    \/ ServeSend
    \/ ServeDownload
    \/ ServeAbortLongOperation
    \/ ServeAcquire
    \/ ServeRelease
    \/ Deliver
    \/ TransportDisconnected /\ Room
    \/ Housekeeping

SpecIpc == InitIpc /\ [][NextIpc]_vars

\* C21: a method of the IpcConnection appends one message to the channel
\* and changes neither the Connection nor the mirrored state; the message of
\* acquire and release is synchronous and blocks the renderer, every other
\* one is asynchronous and does not.  A blocked renderer sends nothing and
\* goes on exactly when the server has handled its message and set the
\* return value.  The mirrored state changes only by the watch callback
\* taking the oldest status message.
C21_ProxyOnlyForwards ==
    [][/\ Len(ipc'.calls) > Len(ipc.calls) =>
            /\ conn' = conn /\ rt' = rt
            /\ mirror' = mirror
            /\ connections' = connections
            /\ Len(ipc'.calls) = Len(ipc.calls) + 1
            /\ SubSeq(ipc'.calls, 1, Len(ipc.calls)) = ipc.calls
            /\ LET m == ipc'.calls[Len(ipc'.calls)] IN
                 IF m.channel \in SyncChannels
                 THEN m.sync /\ ipc'.waiting
                 ELSE ~m.sync /\ ~ipc'.waiting
       /\ ipc.waiting => Len(ipc'.calls) <= Len(ipc.calls)
       /\ (ipc.waiting /\ ipc'.calls # ipc.calls) =>
            /\ ipc'.calls = Tail(ipc.calls)
            /\ ipc'.waiting = ~Head(ipc.calls).sync
            /\ Head(ipc.calls).sync =>
                 ipc'.returnValue =
                    IF Head(ipc.calls).channel = "instrument/connection/acquire"
                    THEN eff'.ret ELSE "true"
       /\ (ipc.waiting /\ ipc'.calls = ipc.calls) => ipc'.waiting
       /\ mirror'.proxy # mirror.proxy =>
            /\ mirror.queue # <<>>
            /\ mirror'.proxy = watchCallback(mirror.proxy, Head(mirror.queue))
            /\ mirror'.queue = Tail(mirror.queue)
            /\ conn' = conn /\ ipc' = ipc]_vars

\* the renderer is blocked in acquire() behind a send() the server has not
\* handled yet, on a session its mirror shows CONNECTED
C21_Witness ==
    /\ ipc.waiting
    /\ Len(ipc.calls) = 2
    /\ ipc.calls[1].channel = "instrument/connection/send"
    /\ ipc.calls[2].channel = "instrument/connection/acquire"
    /\ conn.state = "CONNECTED"
    /\ mirror.proxy.state = "CONNECTED"

\* C23 as claimed: once the Connection of an instrument has been destroyed
\* the registry of the owning context has no entry for it, and a message
\* the server handles after that reaches no Connection: it changes neither
\* the Connection nor its Transport.
C23_DestroyedLeavesNoEntry ==
    /\ [](connections.main # "destroyed Connection")
    /\ [][(/\ connections.main # "Connection"
           /\ ipc.calls # <<>>
           /\ ipc'.calls = Tail(ipc.calls)) =>
              (conn' = conn /\ rt' = rt /\ eff'.tconnect = 0)]_vars

-----------------------------------------------------------------------------
(* Long operations, timers and ownership across the end of a session *)

\* the handler cleared a LongOperation that reported done
ClearsDone ==
    /\ Active(conn.longOperation)
    /\ IsDone(conn.longOperation)
    /\ ~Active(conn'.longOperation)

\* C31 as claimed: within a session a LongOperation that reports done is
\* cleared by the housekeeping tick or by the handler of a chunk, and by
\* nothing else, and the handler that clears it notifies its completion
\* exactly once.
C31_DoneIsClearedAndNotifiedOnce ==
    [][/\ (Active(conn.longOperation) /\ IsDone(conn.longOperation)
           /\ eff'.op \in {"housekeeping", "data"}) =>
              (~Active(conn'.longOperation) /\ Len(eff'.done) = 1)
       /\ (ClearsDone /\ eff'.op # "disconnected") =>
              (eff'.op \in {"housekeeping", "data"} /\ Len(eff'.done) = 1)]_vars

\* an identification timer fires
IdnTimerFires ==
    /\ eff'.op = "idnTimeout"
    /\ \/ rt.idnTimer /\ ~rt'.idnTimer
       \/ rt'.staleIdnTimers < rt.staleIdnTimers

\* C33 as claimed: an identification timer that fires when its session is
\* over, in IDLE or as the timer of an earlier sendIdn in a later session,
\* sets no error and calls no disconnect(): it leaves the Connection as it
\* is and reports no fault.
C33_IdnTimerStaysInItsSession ==
    [][(/\ IdnTimerFires
        /\ \/ conn.state = "IDLE"
           \/ rt'.staleIdnTimers < rt.staleIdnTimers) =>
          /\ conn' = conn
          /\ eff'.tdisconnect = 0
          /\ eff'.fault = <<>>]_vars

\* C34 as claimed: the coalescing timer firing while a LongOperation is
\* active flushes the buffer and neither aborts nor clears the LongOperation.
C34_FlushKeepsLongOperation ==
    [][(eff'.op = "dataTimeout" /\ Active(conn.longOperation)) =>
          /\ conn'.longOperation = conn.longOperation
          /\ eff'.aborts = <<>>
          /\ conn'.data = undefinedStr]_vars

\* C35 as claimed: the housekeeping tick that detects the completion of a
\* LongOperation keeps the bytes that are in the frame buffer: the buffer
\* after the tick starts with the buffer before it.
C35_TickKeepsBuffer ==
    [][(/\ eff'.op = "housekeeping"
        /\ conn.data # undefinedStr
        /\ conn.data # <<>>) =>
          /\ conn'.data # undefinedStr
          /\ Len(conn'.data) >= Len(conn.data)
          /\ SubSeq(conn'.data, 1, Len(conn.data)) = conn.data]_vars

\* C37 as claimed: a recorded exclusive owner implies the state is
\* CONNECTED or DISCONNECTING, and the "disconnected" handler clears the
\* owner and restores tracing.
C37_OwnerOnlyInSession ==
    /\ [](conn.callbackWindowId # 0 => conn.state \in {"CONNECTED", "DISCONNECTING"})
    /\ [][eff'.op = "disconnected" =>
             (conn'.callbackWindowId = 0 /\ conn'.traceEnabled)]_vars

\* C32: abortLongOperation() changes neither state, errorCode nor error,
\* reports no fault and touches no timer; with no LongOperation active it
\* changes nothing at all and aborts nothing, and on a LongOperation that
\* is already aborted it leaves the Connection as it is.
C32_AbortIsSafeWhenIdle ==
    [][eff'.op = "abortLongOperation" =>
          /\ StatusOf(conn') = StatusOf(conn)
          /\ eff'.fault = <<>>
          /\ rt' = rt
          /\ ~Active(conn.longOperation) => (conn' = conn /\ eff'.aborts = <<>>)
          /\ (Active(conn.longOperation) /\ conn.longOperation.aborted) =>
                conn' = conn]_vars

\* abortLongOperation() was called on a connected session with nothing in
\* progress
C32_Witness ==
    /\ eff.op = "abortLongOperation"
    /\ eff.aborts = <<>>
    /\ eff.fault = <<>>
    /\ ~Active(conn.longOperation)
    /\ conn.state = "CONNECTED"

-----------------------------------------------------------------------------
(* A session window 2 has acquired with tracing off; the renderer of        *)
(* another window and the owning context release it.  Nobody acquires.      *)

InitRelease ==
    /\ instrument = [lastConnection |-> "ethernet"]
    /\ conn = [ConnectedSession EXCEPT !.callbackWindowId = 2,
                                       !.traceEnabled = FALSE]
    /\ rt = [NewRuntime EXCEPT !.interval = TRUE, !.link = "up"]
    /\ eff = NoEff
    /\ probe = NoProbe
    /\ mirror = NoMirror
    /\ ipc = NoIpc
    /\ connections = createConnection(createConnection(NoConnections, FALSE), TRUE)

NextRelease ==
    \/ ProxyRelease
    \/ ServeRelease
    \/ Release
    \/ Connect
    \/ Disconnect
    \/ Send
    \/ TransportConnected
    \/ TransportDisconnected
    \/ IdnAnswer
    \/ TransportData
    \/ DataTimeout

SpecRelease == InitRelease /\ [][NextRelease]_vars

\* the owner and the tracing flag after release()
Released(c) == [c EXCEPT !.callbackWindowId = 0, !.traceEnabled = TRUE]

\* C38: release(), called in the owning context or by the server for a
\* proxy, in any state and whoever holds the acquisition, clears the owner
\* and enables tracing and changes nothing else; the server sets the
\* return value true and the proxy's caller goes on.
C38_ReleaseHasNoOwner ==
    [][/\ (/\ ipc.calls # <<>>
           /\ ipc'.calls = Tail(ipc.calls)
           /\ Head(ipc.calls).channel = "instrument/connection/release") =>
              /\ conn' = Released(conn)
              /\ rt' = rt
              /\ ipc'.returnValue = "true"
              /\ ~ipc'.waiting
       /\ (eff'.op = "release" /\ ipc' = ipc) =>
              (conn' = Released(conn) /\ rt' = rt)]_vars

\* the renderer's release was served while the Connection was IDLE after
\* the session window 2 had acquired: owner cleared, tracing on, caller
\* acknowledged
C38_Witness ==
    /\ eff.op = "release"
    /\ ipc.returnValue = "true"
    /\ ~ipc.waiting
    /\ conn.state = "IDLE"
    /\ conn.callbackWindowId = 0
    /\ conn.traceEnabled

\* C39 as claimed: the "disconnected" handler of a Connection that leaves
\* DISCONNECTING or CONNECTING publishes the IDLE status to the watching
\* proxy, after destroy() as before it.
C39_FinalIdleIsPublished ==
    [][(/\ eff'.op = "disconnected"
        /\ conn.state # "IDLE"
        /\ conn'.state = "IDLE"
        /\ mirror.subscribed) =>
          /\ mirror'.queue # <<>>
          /\ mirror'.queue[Len(mirror'.queue)].state = "IDLE"]_vars

====
